---------------------------- MODULE Spec2Model ----------------------------
(***************************************************************************)
(* A model of pydop's feature-model engine (src/pydop/fm_diagram.py):      *)
(* constraint expressions and their evaluation, feature diagrams, the      *)
(* lookup/declaration check, and the evaluation of a product.              *)
(*                                                                         *)
(* Python values are records [ty, v]; Python strings that hold paths are   *)
(* modelled by their '/'-separated segments (names hold no '/').           *)
(***************************************************************************)
EXTENDS Integers, Sequences, FiniteSets, TLC

VARIABLES
  fd,        \* the feature diagram as built by the constructors (root = node 1)
  m_ctcs,    \* per node: its cross-tree constraints (rewritten by check)
  m_lookup,  \* root only: None or {name: [(obj, path)]}
  m_dom,     \* root only: None or {obj: path string}
  m_errors,  \* root only: None or the _decl_errors__c of the last check
  arg,       \* the arguments the calls are made with: [c, product]
  ret        \* what the last operation returned or raised

vars == <<fd, m_ctcs, m_lookup, m_dom, m_errors, arg, ret>>

(***************************************************************************)
(* Bounds of the model.                                                    *)
(***************************************************************************)
MaxArity == 3   \* children of an n-ary constraint operator
MaxOps == 2     \* operator nodes of a constraint expression
MaxNodes == 3   \* features of a feature diagram

(***************************************************************************)
(* Python values.                                                          *)
(***************************************************************************)
PyBool(b) == [ty |-> "bool", v |-> IF b THEN 1 ELSE 0]
PyTrue == PyBool(TRUE)
PyFalse == PyBool(FALSE)
PyNone == [ty |-> "NoneType", v |-> 0]
PyInt(n) == [ty |-> "int", v |-> n]

\* The sentinel for "no value": a plain object, hence truthy.
_empty__ == [ty |-> "_empty_c__", v |-> 0]

\* bool(x) of a Python value.
Truthy(x) ==
  CASE x.ty = "bool" -> x.v = 1
    [] x.ty = "int" -> x.v # 0
    [] x.ty = "NoneType" -> FALSE
    [] OTHER -> TRUE

\* x == y of two Python values (bool is a subclass of int).
PyEq(x, y) ==
  IF x.ty \in {"bool", "int"} /\ y.ty \in {"bool", "int"}
  THEN x.v = y.v
  ELSE x = y

\* A Python tuple built by a comprehension: each element is computed once.
Tuple(f) == f \o <<>>

\* An optional value: None or Some(x).
None == <<>>
Some(x) == <<x>>

(***************************************************************************)
(* Keys of a product and refs of reasons: a string (its path segments), a  *)
(* feature object, an attribute object (the (name, spec) pair), a tuple    *)
(* of segments, or a constraint expression object.                         *)
(***************************************************************************)
StrKey(segs) == [t |-> "str", id |-> 0, path |-> segs]
FdKey(n) == [t |-> "fd", id |-> n, path |-> <<>>]
AttKey(a) == [t |-> "att", id |-> a, path |-> <<>>]
TupleKey(p) == [t |-> "tuple", id |-> 0, path |-> p]
ExpKey(i, name) == [t |-> "exp", id |-> i, path |-> <<name>>]

\* dict.get(key, default)
DictGet(d, key, default) == IF key \in DOMAIN d THEN d[key] ELSE default

(***************************************************************************)
(* Reason trees.                                                           *)
(***************************************************************************)
NoReason == [isNone |-> TRUE, m_ref |-> StrKey(<<>>), m_local |-> <<>>,
             m_subs |-> <<>>, m_count |-> 0]

_reason_tree__c(ref) ==
  [isNone |-> FALSE, m_ref |-> ref, m_local |-> <<>>, m_subs |-> <<>>, m_count |-> 0]

LocalReason(kind, ref, val, expected, deps) ==
  [kind |-> kind, m_ref |-> ref, m_val |-> val, m_expected |-> expected, m_deps |-> deps]

add_reason_value_mismatch(tree, ref, val, expected) ==
  [tree EXCEPT !.m_local = Append(@, LocalReason("value_mismatch", ref, val, expected, <<>>)),
               !.m_count = @ + 1]

add_reason_value_none(tree, ref) ==
  [tree EXCEPT !.m_local = Append(@, LocalReason("value_none", ref, PyNone, PyNone, <<>>)),
               !.m_count = @ + 1]

add_reason_dependencies(tree, ref, deps) ==
  [tree EXCEPT !.m_local = Append(@, LocalReason("dependencies", ref, PyNone, PyNone, deps)),
               !.m_count = @ + 1]

\* bool(reason) for a reason that may be None.
ReasonTruthy(reason) == (~reason.isNone) /\ reason.m_count # 0

add_reason_sub(tree, sub) ==
  IF ReasonTruthy(sub.m_reason)
  THEN [tree EXCEPT !.m_subs = Append(@, sub.m_reason), !.m_count = @ + 1]
  ELSE tree

RECURSIVE add_reason_subs(_, _, _)
add_reason_subs(tree, results, i) ==
  IF i > Len(results) THEN tree
  ELSE add_reason_subs(add_reason_sub(tree, results[i]), results, i + 1)

(***************************************************************************)
(* Constraint expressions.  A Var holds its content (a string before the   *)
(* check, what _path_check_exists__ returned after it), a Lit its value,   *)
(* a composite its children.                                               *)
(***************************************************************************)
Var(content) == [op |-> "Var", m_content |-> <<>>, ref |-> content, lit |-> PyNone]
Lit(value) == [op |-> "Lit", m_content |-> <<>>, ref |-> StrKey(<<>>), lit |-> value]
Composite(op, content) == [op |-> op, m_content |-> content, ref |-> StrKey(<<>>), lit |-> PyNone]

NaryOps == {"And", "Or", "Xor", "Conflict"}
BinaryOps == {"Implies", "Iff"}

\* all(values)
RECURSIVE PyAll(_, _)
PyAll(values, i) ==
  IF i > Len(values) THEN TRUE
  ELSE IF ~Truthy(values[i]) THEN FALSE
  ELSE PyAll(values, i + 1)

\* any(values)
RECURSIVE PyAny(_, _)
PyAny(values, i) ==
  IF i > Len(values) THEN FALSE
  ELSE IF Truthy(values[i]) THEN TRUE
  ELSE PyAny(values, i + 1)

\* The loop of Xor._compute__ (and FDXor._compute__) from element i on.
RECURSIVE XorLoop(_, _, _)
XorLoop(values, i, res) ==
  IF i > Len(values) THEN res
  ELSE IF Truthy(values[i])
       THEN IF res THEN FALSE ELSE XorLoop(values, i + 1, TRUE)
       ELSE XorLoop(values, i + 1, res)

Xor_compute(values) == XorLoop(values, 1, FALSE)

\* The loop of Conflict._compute__, which ends with "return True".
RECURSIVE ConflictLoop(_, _, _)
ConflictLoop(values, i, res) ==
  IF i > Len(values) THEN TRUE
  ELSE IF Truthy(values[i])
       THEN IF res THEN FALSE ELSE ConflictLoop(values, i + 1, TRUE)
       ELSE ConflictLoop(values, i + 1, res)

\* Conflict._compute__ ending with Xor's "return res" instead.
Conflict_computeXorLike(values) == PyBool(XorLoop(values, 1, FALSE))

Conflict_compute(values) == PyBool(ConflictLoop(values, 1, FALSE))

\* (not values[0]) or values[1]: Python's "or" returns its second operand as is.
Implies_compute(values) ==
  IF ~Truthy(values[1]) THEN PyTrue ELSE values[2]

\* _compute__ of the class named op.
expbool_compute(op, values) ==
  CASE op = "And" -> PyBool(PyAll(values, 1))
    [] op = "Or" -> PyBool(PyAny(values, 1))
    [] op = "Not" -> PyBool(~Truthy(values[1]))
    [] op = "Xor" -> PyBool(Xor_compute(values))
    [] op = "Conflict" -> Conflict_compute(values)
    [] op = "Implies" -> Implies_compute(values)
    [] op = "Iff" -> PyBool(PyEq(values[1], values[2]))

\* _get_expected__ of the class named op.
expbool_get_expected(op, expected) ==
  CASE op = "And" -> IF expected = PyTrue THEN PyTrue ELSE PyNone
    [] op = "Or" -> IF expected # PyFalse THEN PyNone ELSE PyFalse
    [] op = "Not" -> IF expected = PyTrue THEN PyFalse
                     ELSE IF expected = PyFalse THEN PyTrue ELSE PyNone
    [] OTHER -> PyNone

EvalResult(value, reason) ==
  [m_value |-> value, m_reason |-> reason, m_nvalue |-> PyNone, m_snodes |-> <<>>]

RECURSIVE add_mismatches(_, _, _, _, _)
add_mismatches(tree, e, results, expected, i) ==
  IF i > Len(e.m_content) THEN tree
  ELSE add_mismatches(
         add_reason_value_mismatch(tree, ExpKey(i, e.m_content[i].op), results[i].m_value,
                                   expbool_get_expected(e.op, expected)),
         e, results, expected, i + 1)

\* _expbool__c.__call__, Var.__call__ and Lit.__call__ (idx only labels the
\* reason of an anonymous tree, which no class here builds).
RECURSIVE expbool_call(_, _, _)
expbool_call(e, product, expected) ==
  IF e.op = "Var"
  THEN LET res == DictGet(product, e.ref, _empty__)
       IN IF res = _empty__
          THEN EvalResult(res, add_reason_value_none(_reason_tree__c(StrKey(<<"Var">>)), e.ref))
          ELSE EvalResult(res, NoReason)
  ELSE IF e.op = "Lit"
  THEN EvalResult(e.lit, NoReason)
  ELSE LET results == Tuple([i \in 1..Len(e.m_content) |->
                         expbool_call(e.m_content[i], product,
                                      expbool_get_expected(e.op, expected))])
           values == Tuple([i \in 1..Len(e.m_content) |-> results[i].m_value])
           res == expbool_compute(e.op, values)
       IN IF PyEq(res, expected)
          THEN EvalResult(res, NoReason)
          ELSE EvalResult(res,
                 add_reason_subs(
                   add_mismatches(_reason_tree__c(StrKey(<<e.op>>)), e, results, expected, 1),
                   results, 1))

(***************************************************************************)
(* The constraint expressions and products a call is tried on.             *)
(***************************************************************************)
VarNames == {"a", "b"}
Leaves == {Var(StrKey(<<n>>)) : n \in VarNames}

\* The sequences of k expressions that hold n operator nodes in all.
RECURSIVE ExprsOfSize(_), ExprSeqs(_, _)
ExprSeqs(k, n) ==
  IF k = 0 THEN (IF n = 0 THEN {<<>>} ELSE {})
  ELSE UNION {{<<h>> \o t : h \in ExprsOfSize(m), t \in ExprSeqs(k - 1, n - m)} : m \in 0..n}

ExprsOfSize(n) ==
  IF n = 0 THEN Leaves
  ELSE UNION ({{Composite(op, s) : s \in ExprSeqs(k, n - 1)} : op \in NaryOps, k \in 0..MaxArity}
              \cup {{Composite(op, s) : s \in ExprSeqs(2, n - 1)} : op \in BinaryOps}
              \cup {{Composite("Not", s) : s \in ExprSeqs(1, n - 1)}})

Exprs == UNION {ExprsOfSize(n) : n \in 0..MaxOps}

BoolProducts == [{StrKey(<<n>>) : n \in VarNames} -> {PyTrue, PyFalse}]

(***************************************************************************)
(* Calling a constraint expression on a product, outside any feature       *)
(* model: c(product) with the default expected=True.                       *)
(***************************************************************************)
NoRet == [op |-> "none"]
NoFd == [kind |-> <<>>, m_name |-> <<>>, m_content |-> <<>>, m_attributes |-> <<>>]

InitExpr ==
  /\ fd = NoFd
  /\ m_ctcs = <<>>
  /\ m_lookup = None
  /\ m_dom = None
  /\ m_errors = None
  /\ \E c \in Exprs, p \in BoolProducts : arg = [c |-> c, product |-> p]
  /\ ret = NoRet

ExprCall ==
  /\ ret' = [op |-> "expbool_call", result |-> expbool_call(arg.c, arg.product, PyTrue)]
  /\ UNCHANGED <<fd, m_ctcs, m_lookup, m_dom, m_errors, arg>>

NextExpr == ExprCall

SpecExpr == InitExpr /\ [][NextExpr]_vars

\* The truth-table value of a constraint over Boolean variables.
RECURSIVE TruthTable(_, _)
TruthTable(c, p) ==
  LET n == Len(c.m_content)
      sub(i) == TruthTable(c.m_content[i], p)
      trues == Cardinality({i \in 1..n : sub(i)})
  IN CASE c.op = "Var" -> p[c.ref] = PyTrue
       [] c.op = "And" -> \A i \in 1..n : sub(i)
       [] c.op = "Or" -> \E i \in 1..n : sub(i)
       [] c.op = "Not" -> ~sub(1)
       [] c.op = "Xor" -> trues = 1
       [] c.op = "Conflict" -> trues <= 1
       [] c.op = "Implies" -> sub(1) => sub(2)
       [] c.op = "Iff" -> sub(1) <=> sub(2)

\* C6: the value of a constraint built from And, Or, Not, Xor, Conflict,
\* Implies and Iff over Boolean variables, called on a product that gives
\* each variable a Boolean, is the Boolean its truth table gives.
C6_TruthTable ==
  ret.op = "expbool_call" =>
    ret.result.m_value = PyBool(TruthTable(arg.c, arg.product))

\* A nested Conflict with no true child under an Xor has been evaluated.
C6_Witness ==
  /\ ret.op = "expbool_call"
  /\ arg.c.op = "Xor"
  /\ Len(arg.c.m_content) = 2
  /\ arg.c.m_content[1].op = "Conflict"
  /\ Len(arg.c.m_content[1].m_content) = 2
  /\ arg.product = [k \in DOMAIN arg.product |-> PyFalse]
  /\ ret.result.m_value = PyTrue

(***************************************************************************)
(* Attribute specifications.  A spec is [cls, m_domain]; an interval is a  *)
(* pair of bounds, each an int or None.                                    *)
(***************************************************************************)
IntSpec(domain) == [cls |-> "Int", m_domain |-> domain]
BoolSpec == [cls |-> "Bool", m_domain |-> <<>>]

_check_interval(interval, value) ==
  IF interval[1] # PyNone /\ value.v < interval[1].v THEN FALSE
  ELSE IF interval[2] # PyNone /\ value.v >= interval[2].v THEN FALSE
  ELSE TRUE

RECURSIVE DomainLoop(_, _, _)
DomainLoop(domain, value, i) ==
  IF i > Len(domain) THEN FALSE
  ELSE IF _check_interval(domain[i], value) THEN TRUE
  ELSE DomainLoop(domain, value, i + 1)

_check_domain(domain, value) ==
  IF Len(domain) # 0 THEN DomainLoop(domain, value, 1) ELSE TRUE

\* isinstance(value, self.m_class)
Class_call(spec, value) ==
  CASE spec.cls = "Int" -> value.ty \in {"int", "bool"}
    [] spec.cls = "Bool" -> value.ty = "bool"
    [] OTHER -> FALSE

\* spec(value): Int.__call__, or Class.__call__ for a plain class.
Spec_call(spec, value) ==
  IF spec.cls = "Int"
  THEN IF Class_call(spec, value) THEN _check_domain(spec.m_domain, value) ELSE FALSE
  ELSE Class_call(spec, value)

(***************************************************************************)
(* Feature diagrams.  fd holds, per node, the class (kind), m_name (None   *)
(* or Some(name)), m_content (the children) and m_attributes (records      *)
(* [id, name, spec]: the object is the (name, spec) pair).                 *)
(***************************************************************************)
Kinds == {"FDAnd", "FDAny", "FDOr", "FDXor"}

Att(id, name, spec) == [id |-> id, name |-> name, spec |-> spec]

Nodes == DOMAIN fd.kind

FD_compute(kind, values) ==
  CASE kind = "FDAnd" -> PyAll(values, 1)
    [] kind = "FDAny" -> TRUE
    [] kind = "FDOr" -> PyAny(values, 1)
    [] kind = "FDXor" -> XorLoop(values, 1, FALSE)

FD_get_expected(kind, expected) ==
  CASE kind = "FDAnd" -> IF Truthy(expected) THEN PyTrue ELSE PyNone
    [] kind = "FDAny" -> PyNone
    [] kind = "FDOr" -> IF ~Truthy(expected) THEN PyFalse ELSE PyNone
    [] kind = "FDXor" -> PyNone

EvalResultFd(value, reason, nvalue, snodes) ==
  [m_value |-> value, m_reason |-> reason, m_nvalue |-> nvalue, m_snodes |-> snodes]

_manage_attribute__(self, att, product, expected) ==
  LET value == DictGet(product, AttKey(att.id), _empty__)
  IN IF value = _empty__
     THEN IF Truthy(expected)
          THEN EvalResult(PyFalse,
                 add_reason_value_none(_reason_tree__c(FdKey(self)), AttKey(att.id)))
          ELSE EvalResult(PyFalse, NoReason)
     ELSE LET res == PyBool(Spec_call(att.spec, value))
          IN IF PyEq(expected, res)
             THEN EvalResult(res, NoReason)
             ELSE EvalResult(res,
                    add_reason_value_mismatch(_reason_tree__c(FdKey(self)),
                                              AttKey(att.id), res, expected))

RECURSIVE ConcatSnodes(_, _)
ConcatSnodes(results, i) ==
  IF i > Len(results) THEN <<>>
  ELSE results[i].m_snodes \o ConcatSnodes(results, i + 1)

\* The check of a named feature against its content in _eval_generic__:
\* the local reason, None when there is nothing to report.
LocalCheck(self, nvalue_local, nvalue_sub, snodes) ==
  IF nvalue_local = _empty__
  THEN add_reason_value_none(_reason_tree__c(FdKey(self)), FdKey(self))
  ELSE IF (~Truthy(nvalue_local)) /\ snodes # <<>>
  THEN add_reason_dependencies(_reason_tree__c(FdKey(self)), FdKey(self),
                               [i \in 1..Len(snodes) |-> FdKey(snodes[i])])
  ELSE IF Truthy(nvalue_local) /\ ~nvalue_sub
  THEN add_reason_value_mismatch(_reason_tree__c(FdKey(self)), FdKey(self), PyTrue, PyFalse)
  ELSE NoReason

\* _eval_generic__ with f_get = _f_get_deep__, the only one __call__ passes.
RECURSIVE _eval_generic__(_, _, _)
_eval_generic__(self, product, expected) ==
  LET kind == fd.kind[self]
      sub_expected == FD_get_expected(kind, expected)
      content == fd.m_content[self]
      atts == fd.m_attributes[self]
      ctcs == m_ctcs[self]
      results_content == Tuple([i \in 1..Len(content) |->
                            _eval_generic__(content[i], product, sub_expected)])
      result_att == Tuple([i \in 1..Len(atts) |->
                       _manage_attribute__(self, atts[i], product, sub_expected)])
      result_ctc == Tuple([i \in 1..Len(ctcs) |->
                       expbool_call(ctcs[i], product, sub_expected)])
      nvalue_subs == [i \in 1..Len(content) |-> results_content[i].m_nvalue]
                     \o [i \in 1..Len(atts) |-> result_att[i].m_value]
                     \o [i \in 1..Len(ctcs) |-> result_ctc[i].m_value]
      nvalue_sub == FD_compute(kind, nvalue_subs)
      value_subs == \A i \in 1..Len(content) : Truthy(results_content[i].m_value)
      snodes0 == ConcatSnodes(results_content, 1)
      named == fd.m_name[self] # None
      nvalue_local == IF named THEN DictGet(product, FdKey(self), _empty__)
                      ELSE PyBool(nvalue_sub)
      reason0 == IF named THEN LocalCheck(self, nvalue_local, nvalue_sub, snodes0)
                 ELSE NoReason
      snodes == IF named /\ reason0.isNone /\ Truthy(nvalue_local)
                THEN Append(snodes0, self) ELSE snodes0
      value == value_subs /\ reason0.isNone
      reason1 == IF reason0.isNone THEN _reason_tree__c(FdKey(self)) ELSE reason0
      reason2 == IF ~PyEq(nvalue_local, expected)
                 THEN add_reason_value_mismatch(reason1, FdKey(self), nvalue_local, expected)
                 ELSE reason1
      reason == IF (~PyEq(nvalue_local, expected)) \/ ~value
                THEN add_reason_subs(reason2, results_content \o result_att \o result_ctc, 1)
                ELSE reason0
  IN EvalResultFd(PyBool(value), reason, nvalue_local, snodes)

\* _updater__: the path string of a feature or attribute of m_dom, or ref itself.
_updater__(ref) == DictGet(m_dom[1], ref, ref)

UpdateLocal(l) ==
  [l EXCEPT !.m_ref = _updater__(@),
            !.m_deps = [i \in 1..Len(@) |-> _updater__(@[i])]]

\* _reason_tree__c.update_ref(self._updater__)
RECURSIVE update_ref(_)
update_ref(tree) ==
  [tree EXCEPT !.m_ref = _updater__(@),
               !.m_local = [i \in 1..Len(@) |-> UpdateLocal(@[i])],
               !.m_subs = [i \in 1..Len(@) |-> update_ref(@[i])]]

\* _fd__c.__call__ past its precondition.
fd_call(product, expected) ==
  LET res == _eval_generic__(1, product, expected)
  IN IF ReasonTruthy(res.m_reason)
     THEN [res EXCEPT !.m_reason = update_ref(@)]
     ELSE res

(***************************************************************************)
(* Paths and declaration errors.                                           *)
(***************************************************************************)
RECURSIVE PathIncludesLoop(_, _, _, _)
PathIncludesLoop(p, p_included, idx_p, idx_included) ==
  IF idx_included > Len(p_included) THEN TRUE
  ELSE IF idx_p <= Len(p)
       THEN IF p[idx_p] = p_included[idx_included]
            THEN PathIncludesLoop(p, p_included, idx_p + 1, idx_included + 1)
            ELSE PathIncludesLoop(p, p_included, idx_p + 1, idx_included)
       ELSE FALSE

\* A test that asks the two paths to be the same.
_path_equals__(p, p_included) == p = p_included

\* Whether p_included is an ordered subsequence of p.
_path_includes__(p, p_included) == PathIncludesLoop(p, p_included, 1, 1)

_decl_errors__c == [m_unbounds |-> <<>>, m_ambiguities |-> <<>>]

_unbound__c(name, path) ==
  [cls |-> "_unbound__c", m_name |-> name, m_path |-> path, m_paths |-> <<>>]

_ambiguous__c(name, path, paths) ==
  [cls |-> "_ambiguous__c", m_name |-> name, m_path |-> path, m_paths |-> paths]

add_unbound(errors, name, path) ==
  [errors EXCEPT !.m_unbounds = Append(@, _unbound__c(name, path))]

\* As written in the source: the entry goes to m_unbounds.
add_ambiguous(errors, name, path, paths) ==
  [errors EXCEPT !.m_unbounds = Append(@, _ambiguous__c(name, path, paths))]

has_unbounds(errors) == errors.m_unbounds # <<>>
has_ambiguities(errors) == errors.m_ambiguities # <<>>
errors_bool(errors) == has_unbounds(errors) \/ has_ambiguities(errors)

DictSet(d, key, value) ==
  [k \in DOMAIN d \cup {key} |-> IF k = key THEN value ELSE d[k]]

Last(s) == s[Len(s)]
Front(s) == SubSeq(s, 1, Len(s) - 1)

RECURSIVE SeqMap2(_, _)
\* The second components of a sequence of pairs.
SeqMap2(s, i) == IF i > Len(s) THEN <<>> ELSE <<s[i][2]>> \o SeqMap2(s, i + 1)

\* _path_check_exists__(path_s, mapping, errors, additional_path): what it
\* returns, the errors, and the exception it raised if any.  path_s.split
\* exists on a str only; a str additional_path cannot be added to a tuple.
_path_check_exists__(path_s, mapping, errors, additional_path) ==
  IF path_s.t # "str"
  THEN [content |-> path_s, errors |-> errors, raised |-> "AttributeError"]
  ELSE IF additional_path.t # "tuple"
  THEN [content |-> path_s, errors |-> errors, raised |-> "TypeError"]
  ELSE
    LET name == Last(path_s.path)
        path == additional_path.path \o Front(path_s.path)
    IN IF name \notin DOMAIN mapping
       THEN [content |-> TupleKey(path), raised |-> "",
             errors |-> add_unbound(errors, <<name>>, None)]
       ELSE LET decls == mapping[name]
                includes(el) == _path_includes__(el[2], path)
                refs == SelectSeq(decls, includes)
            IN IF Len(refs) = 0
               THEN [content |-> TupleKey(path), raised |-> "",
                     errors |-> add_unbound(errors, path_s.path, Some(additional_path.path))]
               ELSE IF Len(refs) > 1
               THEN [content |-> TupleKey(path), raised |-> "",
                     errors |-> add_ambiguous(errors, path_s.path, None, SeqMap2(refs, 1))]
               ELSE [content |-> refs[1][1], raised |-> "", errors |-> errors]

\* _check_declarations__ of Var, Lit and the composites: the rewritten
\* expression, the errors and the exception raised if any.  The Vars visited
\* before an exception stay rewritten (they are mutated in place).
RECURSIVE _check_declarations__(_, _, _, _), CheckDeclarationsLoop(_, _, _, _, _)
_check_declarations__(e, path, mapping, errors) ==
  IF e.op = "Var"
  THEN LET r == _path_check_exists__(e.ref, mapping, errors, path)
       IN [e |-> IF r.raised = "" THEN Var(r.content) ELSE e,
           errors |-> r.errors, raised |-> r.raised]
  ELSE IF e.op = "Lit"
  THEN [e |-> e, errors |-> errors, raised |-> ""]
  ELSE LET r == CheckDeclarationsLoop(e.m_content, path, mapping, errors, 1)
       IN [e |-> [e EXCEPT !.m_content = r.es], errors |-> r.errors, raised |-> r.raised]

\* The same over a tuple of expressions, from element i on.
CheckDeclarationsLoop(es, path, mapping, errors, i) ==
  IF i > Len(es) THEN [es |-> es, errors |-> errors, raised |-> ""]
  ELSE LET r == _check_declarations__(es[i], path, mapping, errors)
           es1 == [es EXCEPT ![i] = r.e]
       IN IF r.raised # "" THEN [es |-> es1, errors |-> r.errors, raised |-> r.raised]
          ELSE CheckDeclarationsLoop(es1, path, mapping, r.errors, i + 1)

(***************************************************************************)
(* Lookup generation.                                                      *)
(***************************************************************************)
_check_duplicate__(el, name, path, res, errors) ==
  IF name \in DOMAIN res
  THEN LET tmp == res[name]
           conflicts(entry) == _path_includes__(path, entry[2])
           others == SeqMap2(SelectSeq(tmp, conflicts), 1)
       IN [lookup |-> [res EXCEPT ![name] = Append(tmp, <<el, path>>)],
           errors |-> IF others # <<>> THEN add_ambiguous(errors, <<name>>, Some(path), others)
                      ELSE errors]
  ELSE [lookup |-> DictSet(res, name, << <<el, path>> >>), errors |-> errors]

\* Step 3 of _generate_lookup_rec__: the attributes from the i-th on.
RECURSIVE LookupAttributes(_, _, _, _)
LookupAttributes(atts, local_path, st, i) ==
  IF i > Len(atts) THEN st
  ELSE LET att == atts[i]
           r == _check_duplicate__(AttKey(att.id), att.name, local_path, st.lookup, st.errors)
       IN LookupAttributes(atts, local_path,
            [st EXCEPT !.lookup = r.lookup, !.errors = r.errors,
                       !.dom = DictSet(@, AttKey(att.id), StrKey(Append(local_path, att.name)))],
            i + 1)

\* _generate_lookup_rec__ on the state st = [lookup, dom, errors, ctcs, raised]
\* of the traversal; nothing more is done once an exception is raised.
RECURSIVE _generate_lookup_rec__(_, _, _, _), LookupSubs(_, _, _, _)
_generate_lookup_rec__(self, path_to_self, idx, st) ==
  LET named == fd.m_name[self] # None
      local_path == Append(path_to_self,
                           IF named THEN fd.m_name[self][1] ELSE ToString(idx))
      dup == _check_duplicate__(FdKey(self), fd.m_name[self][1], local_path,
                                st.lookup, st.errors)
      st1 == IF named
             THEN [st EXCEPT !.lookup = dup.lookup, !.errors = dup.errors,
                             !.dom = DictSet(@, FdKey(self), StrKey(local_path))]
             ELSE st
      st2 == LookupSubs(fd.m_content[self], local_path, st1, 1)
      st3 == LookupAttributes(fd.m_attributes[self], local_path, st2, 1)
      r == CheckDeclarationsLoop(st3.ctcs[self], TupleKey(local_path), st3.lookup,
                                 st3.errors, 1)
  IN IF st2.raised # "" THEN st2
     ELSE [st3 EXCEPT !.ctcs[self] = r.es, !.errors = r.errors, !.raised = r.raised]

\* Step 2: the children from the i-th on (idx is i - 1, counted from 0).
LookupSubs(content, local_path, st, i) ==
  IF i > Len(content) \/ st.raised # "" THEN st
  ELSE LookupSubs(content, local_path,
                  _generate_lookup_rec__(content[i], local_path, i - 1, st), i + 1)

\* generate_lookup when m_lookup is None.
generate_lookup ==
  _generate_lookup_rec__(1, <<>>, 0,
    [lookup |-> <<>>, dom |-> <<>>, errors |-> _decl_errors__c, ctcs |-> m_ctcs, raised |-> ""])

(***************************************************************************)
(* The operations of a root feature model.                                 *)
(***************************************************************************)
\* clean()
Clean ==
  /\ m_lookup' = None
  /\ m_dom' = None
  /\ m_errors' = None
  /\ ret' = [op |-> "clean", raised |-> ""]
  /\ UNCHANGED <<fd, m_ctcs, arg>>

\* check(): generate_lookup(), which builds the derived state when there is
\* none and returns m_errors.  An exception leaves what was built so far.
Check ==
  /\ IF m_lookup = None
     THEN LET st == generate_lookup
          IN /\ m_lookup' = Some(st.lookup)
             /\ m_dom' = Some(st.dom)
             /\ m_errors' = Some(st.errors)
             /\ m_ctcs' = st.ctcs
             /\ ret' = IF st.raised # ""
                       THEN [op |-> "check", raised |-> st.raised]
                       ELSE [op |-> "check", raised |-> "", errors |-> st.errors]
     ELSE /\ ret' = [op |-> "check", raised |-> "", errors |-> m_errors[1]]
          /\ UNCHANGED <<m_lookup, m_dom, m_errors, m_ctcs>>
  /\ UNCHANGED <<fd, arg>>

\* fm(product), with the default expected=True.
Call(product) ==
  /\ ret' = IF m_dom = None
            THEN [op |-> "call", raised |-> "ValueError", product |-> product]
            ELSE [op |-> "call", raised |-> "", product |-> product,
                  result |-> fd_call(product, PyTrue)]
  /\ UNCHANGED <<fd, m_ctcs, m_lookup, m_dom, m_errors, arg>>

\* _manage_parameter__: a str becomes a Var, an expression is kept.
_manage_parameter__(param) ==
  IF param.isStr THEN Var(StrKey(param.str)) ELSE param.exp

\* nf_constraint(c).  self.m_dom[self] is the root's path string, and a
\* KeyError when the root has no name.
NfConstraint(c) ==
  /\ ret' =
       IF m_lookup = None
       THEN [op |-> "nf_constraint", raised |-> "ValueError", c |-> c]
       ELSE IF FdKey(1) \notin DOMAIN m_dom[1]
       THEN [op |-> "nf_constraint", raised |-> "KeyError", c |-> c]
       ELSE LET r == _check_declarations__(_manage_parameter__(c), m_dom[1][FdKey(1)],
                                           m_lookup[1], _decl_errors__c)
            IN IF r.raised # ""
               THEN [op |-> "nf_constraint", raised |-> r.raised, c |-> c]
               ELSE [op |-> "nf_constraint", raised |-> "", c |-> c,
                     res |-> r.e, errors |-> r.errors]
  /\ UNCHANGED <<fd, m_ctcs, m_lookup, m_dom, m_errors, arg>>

(***************************************************************************)
(* The feature diagrams the operations are tried on: every ordered tree of *)
(* at most MaxNodes features (node i's parent is a node before i).         *)
(***************************************************************************)
RECURSIVE SortedSeq(_)
SortedSeq(S) ==
  IF S = {} THEN <<>>
  ELSE LET m == CHOOSE x \in S : \A y \in S : x <= y
       IN <<m>> \o SortedSeq(S \ {m})

Parents(n) == {par \in [2..n -> 1..n] : \A i \in 2..n : par[i] < i}

ContentOf(n, par) == [k \in 1..n |-> SortedSeq({i \in 2..n : par[i] = k})]

\* The FDAnd/FDAny/FDOr/FDXor constructor calls that build the tree.
MakeFd(n, par, kinds, names, atts) ==
  [kind |-> kinds, m_name |-> names, m_content |-> ContentOf(n, par), m_attributes |-> atts]

StrParam(segs) == [isStr |-> TRUE, str |-> segs, exp |-> Lit(PyNone)]
ExpParam(e) == [isStr |-> FALSE, str |-> <<>>, exp |-> e]

\* The features with a name, and the keys of a total product.
Named == {n \in Nodes : fd.m_name[n] # None}
FeatureKeys == {FdKey(n) : n \in Named}
AttKeys == UNION {{AttKey(fd.m_attributes[n][i].id) : i \in 1..Len(fd.m_attributes[n])}
                  : n \in Nodes}

\* The values a product gives an attribute: one inside Int(0, None), one outside.
AttValues == {PyInt(2), PyInt(-1)}

TotalProducts ==
  {[k \in FeatureKeys \cup AttKeys |-> IF k.t = "fd" THEN pf[k] ELSE pa[k]] :
     pf \in [FeatureKeys -> {PyTrue, PyFalse}], pa \in [AttKeys -> AttValues]}

\* The products a call is tried on: total, or with one key missing.
Products ==
  TotalProducts \cup
  {[k \in (DOMAIN p) \ {miss} |-> p[k]] : p \in TotalProducts, miss \in FeatureKeys \cup AttKeys}

NodeName(i) == "f" \o ToString(i)

\* Int(0, None)
NonNegative == IntSpec(<< <<PyInt(0), PyNone>> >>)

\* What the root or the last feature carries besides its children: nothing,
\* an attribute v, or a cross-tree constraint on the last feature.
Decors(n) ==
  {[t |-> "none", at |-> 0]}
  \cup {[t |-> d, at |-> k] : d \in {"att", "Var", "Not"}, k \in {1, n}}

DecorAtts(n, decor) ==
  [k \in 1..n |-> IF decor.t = "att" /\ decor.at = k
                  THEN <<Att(k, "v", NonNegative)>> ELSE <<>>]

DecorCtcs(n, decor) ==
  [k \in 1..n |->
     IF decor.at # k THEN <<>>
     ELSE IF decor.t = "Var" THEN <<Var(StrKey(<<NodeName(n)>>))>>
     ELSE IF decor.t = "Not" THEN <<Composite("Not", <<Var(StrKey(<<NodeName(n)>>))>>)>>
     ELSE <<>>]

\* Every tree, every class per feature, at most one feature other than the
\* last one without a name, one decor, and a product.
InitEval ==
  /\ \E n \in 1..MaxNodes :
       \E par \in Parents(n), kinds \in [1..n -> Kinds],
          anon \in {{}} \cup {{k} : k \in 1..(n - 1)}, decor \in Decors(n) :
         /\ fd = MakeFd(n, par, kinds,
                        [k \in 1..n |-> IF k \in anon THEN None ELSE Some(NodeName(k))],
                        DecorAtts(n, decor))
         /\ m_ctcs = DecorCtcs(n, decor)
  /\ m_lookup = None
  /\ m_dom = None
  /\ m_errors = None
  /\ \E p \in Products : arg = [c |-> Lit(PyNone), product |-> p]
  /\ ret = NoRet

NextEval ==
  \/ Check
  \/ Call(arg.product)

SpecEval == InitEval /\ [][NextEval]_vars

(***************************************************************************)
(* Properties of the evaluation of a product.                              *)
(***************************************************************************)
\* fm(product) returned a result.
CallReturned == ret.op = "call" /\ ret.raised = ""

\* The last check recorded no declaration error.
NoDeclErrors == m_errors # None /\ ~errors_bool(m_errors[1])

\* The product gives a value to every named feature and every attribute.
TotalProduct == DOMAIN arg.product = FeatureKeys \cup AttKeys

\* The reason tree holds, at any depth, a local reason of one of the kinds on ref.
RECURSIVE HasLocal(_, _, _)
HasLocal(tree, kinds, ref) ==
  \/ \E i \in 1..Len(tree.m_local) :
       tree.m_local[i].kind \in kinds /\ tree.m_local[i].m_ref = ref
  \/ \E i \in 1..Len(tree.m_subs) : HasLocal(tree.m_subs[i], kinds, ref)

AllKinds == {"value_mismatch", "value_none", "dependencies"}

ParentOf(n) == CHOOSE k \in Nodes : \E i \in 1..Len(fd.m_content[k]) : fd.m_content[k][i] = n

RECURSIVE IsAncestor(_, _)
IsAncestor(a, n) == n # 1 /\ (ParentOf(n) = a \/ IsAncestor(a, ParentOf(n)))

\* n and every node above it are FDAnd.
AndChain(n) == \A k \in Nodes : (k = n \/ IsAncestor(k, n)) => fd.kind[k] = "FDAnd"

\* The expected value the evaluation of the root with expected=True hands to n.
RECURSIVE ExpectedAt(_)
ExpectedAt(n) ==
  IF n = 1 THEN PyTrue
  ELSE FD_get_expected(fd.kind[ParentOf(n)], ExpectedAt(ParentOf(n)))

IsTrueIn(product, key) == key \in DOMAIN product /\ product[key] = PyTrue
IsFalseIn(product, key) == key \in DOMAIN product /\ product[key] = PyFalse

\* C1: on a checked FM, fm(p) with expected=True has value True if and only
\* if its reason is absent or empty; never value True with a non-empty reason.
C1_ValueIffNoReason ==
  (CallReturned /\ NoDeclErrors /\ TotalProduct) =>
    ((ret.result.m_value = PyTrue) <=> ~ReasonTruthy(ret.result.m_reason))

\* C2: an FDAnd node required True (the root, or reached from the root through
\* FDAnd nodes only) with a child feature that is False in the product makes
\* the verdict false, and the reason tree names that child.
C2_AndChildFalse ==
  (CallReturned /\ NoDeclErrors /\ TotalProduct) =>
    \A n \in Nodes : \A i \in 1..Len(fd.m_content[n]) :
      LET c == fd.m_content[n][i]
      IN (AndChain(n) /\ c \in Named /\ IsFalseIn(arg.product, FdKey(c))) =>
           /\ ret.result.m_value = PyFalse
           /\ HasLocal(ret.result.m_reason, AllKinds, _updater__(FdKey(c)))

\* C3: for a feature of any class that is True in the product, an attribute
\* value its domain rejects makes the verdict false, with a value-mismatch on
\* that attribute in the reason tree.
C3_BadAttributeRejected ==
  (CallReturned /\ NoDeclErrors /\ TotalProduct) =>
    \A n \in Named : \A i \in 1..Len(fd.m_attributes[n]) :
      LET att == fd.m_attributes[n][i]
      IN (IsTrueIn(arg.product, FdKey(n)) /\ ~Spec_call(att.spec, arg.product[AttKey(att.id)])) =>
           /\ ret.result.m_value = PyFalse
           /\ HasLocal(ret.result.m_reason, {"value_mismatch"}, _updater__(AttKey(att.id)))

\* C4: a named feature F that is False in the product with a named descendant
\* D that is True makes the verdict false, with a dependencies reason on F.
C4_Dependencies ==
  (CallReturned /\ NoDeclErrors /\ TotalProduct) =>
    \A f \in Named, d \in Named :
      (IsAncestor(f, d) /\ IsFalseIn(arg.product, FdKey(f)) /\ IsTrueIn(arg.product, FdKey(d))) =>
        /\ ret.result.m_value = PyFalse
        /\ HasLocal(ret.result.m_reason, {"dependencies"}, _updater__(FdKey(f)))

\* The child features of n that are True in the product.
TrueChildren(n) ==
  {i \in 1..Len(fd.m_content[n]) : IsTrueIn(arg.product, FdKey(fd.m_content[n][i]))}

\* C5: an FDXor node required True (named and True in the product, or evaluated
\* with expected=True) whose number of True child features is not 1 gets a
\* value-mismatch in the reason tree and the verdict is false, whatever
\* attributes or cross-tree constraints it carries.
C5_XorCount ==
  (CallReturned /\ NoDeclErrors /\ TotalProduct) =>
    \A n \in Nodes :
      (/\ fd.kind[n] = "FDXor"
       /\ \A i \in 1..Len(fd.m_content[n]) : fd.m_content[n][i] \in Named
       /\ IsTrueIn(arg.product, FdKey(n)) \/ ExpectedAt(n) = PyTrue
       /\ Cardinality(TrueChildren(n)) # 1) =>
        /\ ret.result.m_value = PyFalse
        /\ HasLocal(ret.result.m_reason, {"value_mismatch"}, _updater__(FdKey(n)))

(***************************************************************************)
(* The life of a feature model: check, clean and the operations that need  *)
(* the derived state, in any order, on diagrams whose names, attributes    *)
(* and references may clash.                                               *)
(***************************************************************************)
Names == {"x", "y"}
RefPaths == {<<"x">>, <<"y">>, <<"x", "y">>}

\* At most one attribute and at most one cross-tree constraint, a Var.
Init ==
  /\ \E n \in 1..MaxNodes :
       \E par \in Parents(n), names \in [1..n -> {None} \cup {Some(x) : x \in Names}],
          att \in {[at |-> 0, name |-> "x"]} \cup [at : 1..n, name : Names],
          ctc \in {[at |-> 0, ref |-> <<"x">>]} \cup [at : 1..n, ref : RefPaths] :
         /\ fd = MakeFd(n, par, [k \in 1..n |-> "FDAnd"], names,
                        [k \in 1..n |-> IF att.at = k
                                        THEN <<Att(k, att.name, NonNegative)>> ELSE <<>>])
         /\ m_ctcs = [k \in 1..n |-> IF ctc.at = k THEN <<Var(StrKey(ctc.ref))>> ELSE <<>>]
  /\ m_lookup = None
  /\ m_dom = None
  /\ m_errors = None
  /\ \E b \in {PyTrue, PyFalse} :
       arg = [c |-> Lit(PyNone),
              product |-> [k \in FeatureKeys \cup AttKeys |-> IF k.t = "fd" THEN b ELSE PyInt(2)]]
  /\ ret = NoRet

\* The constraints nf_constraint is tried on: a name given as a str, the
\* same in an expression, and an expression without any reference.
NfConstraints ==
  {StrParam(<<"x">>),
   ExpParam(Composite("Not", <<Var(StrKey(<<"x">>))>>)),
   ExpParam(Composite("And", <<Lit(PyTrue)>>))}

Next ==
  \/ Check
  \/ Clean
  \/ Call(arg.product)
  \/ \E c \in NfConstraints : NfConstraint(c)

Spec == Init /\ [][Next]_vars

(***************************************************************************)
(* Properties of the life of a feature model.                              *)
(***************************************************************************)
\* C7: in any sequence of check() and clean() calls, fm(product) and
\* nf_constraint(c) raise an error and return no result exactly when the FM
\* has no derived state at that moment (never checked, or cleaned since the
\* last check).  nf_product, which opens with nf_constraint's guard, is not
\* among the operations of Next.
C7_RaisesIffNoDerivedState ==
  ret.op \in {"call", "nf_constraint"} => ((ret.raised # "") <=> (m_lookup = None))

\* Some Var of the expression holds what a check put in place of its string.
RECURSIVE HasResolvedVar(_)
HasResolvedVar(e) ==
  IF e.op = "Var" THEN e.ref.t # "str"
  ELSE \E i \in 1..Len(e.m_content) : HasResolvedVar(e.m_content[i])

\* C8: check(); clean(); check() completes without raising, and the second
\* check() leaves the constraint references as the first one resolved them
\* (a check() that follows clean() on constraints a check() has rewritten).
C8_CheckCleanCheck ==
  [][(ret.op = "clean" /\ ret'.op = "check") =>
       /\ ret'.raised = ""
       /\ (\E k \in Nodes : \E i \in 1..Len(m_ctcs[k]) : HasResolvedVar(m_ctcs[k][i]))
            => m_ctcs' = m_ctcs]_vars

\* C9: every ambiguity a check() detects is recorded in the ambiguous list and
\* not in the unbound list, so that has_ambiguities() is true after it and
\* has_unbounds() is true only if some reference was unbound.
C9_AmbiguitiesRecorded ==
  (ret.op = "check" /\ ret.raised = "") =>
    /\ \A i \in 1..Len(ret.errors.m_unbounds) : ret.errors.m_unbounds[i].cls = "_unbound__c"
    /\ (\E i \in 1..Len(ret.errors.m_unbounds) :
          ret.errors.m_unbounds[i].cls = "_ambiguous__c") => has_ambiguities(ret.errors)

\* C10: after a check() that reports no error, no two lookup entries under
\* one name have paths where one includes the other.
C10_LookupUniqueness ==
  (ret.op = "check" /\ ret.raised = "" /\ ~errors_bool(ret.errors)) =>
    \A name \in DOMAIN m_lookup[1] :
      \A i \in 1..Len(m_lookup[1][name]), j \in 1..Len(m_lookup[1][name]) :
        i # j => ~_path_includes__(m_lookup[1][name][i][2], m_lookup[1][name][j][2])

\* The features in the order the traversal of check() visits them.
RECURSIVE PreOrder(_), PreOrderSubs(_, _)
PreOrder(n) == <<n>> \o PreOrderSubs(fd.m_content[n], 1)

PreOrderSubs(content, i) ==
  IF i > Len(content) THEN <<>>
  ELSE PreOrder(content[i]) \o PreOrderSubs(content, i + 1)

VisitRank(n) == CHOOSE i \in 1..Len(PreOrder(1)) : PreOrder(1)[i] = n

\* The index of n among the children of its parent, counted from 0.
ChildIndex(n) ==
  IF n = 1 THEN 0
  ELSE (CHOOSE i \in 1..Len(fd.m_content[ParentOf(n)]) : fd.m_content[ParentOf(n)][i] = n) - 1

\* The path of a feature: names, and positions for the features without a name.
RECURSIVE PathOf(_)
PathOf(n) ==
  LET seg == IF fd.m_name[n] # None THEN fd.m_name[n][1] ELSE ToString(ChildIndex(n))
  IN IF n = 1 THEN <<seg>> ELSE Append(PathOf(ParentOf(n)), seg)

\* The entity is declared when the constraints of n are resolved: a feature
\* of n's subtree or one visited before n; an attribute of n's subtree, or of
\* a feature whose visit ended before n's began.
DeclaredAt(n, key) ==
  LET k == key.id
      inSubtree == k = n \/ IsAncestor(n, k)
  IN IF key.t = "fd" THEN inSubtree \/ VisitRank(k) < VisitRank(n)
     ELSE inSubtree \/ (VisitRank(k) < VisitRank(n) /\ ~IsAncestor(k, n))

\* q is an ordered subsequence of p.
IsSubseq(q, p) ==
  \E idx \in [1..Len(q) -> 1..Len(p)] :
    /\ \A i \in 1..Len(q), j \in 1..Len(q) : i < j => idx[i] < idx[j]
    /\ \A i \in 1..Len(q) : p[idx[i]] = q[i]

\* The declared entities a reference segs met at feature n designates.
Candidates(n, segs, lookup) ==
  LET name == Last(segs)
      path == PathOf(n) \o Front(segs)
      designated(el) == DeclaredAt(n, el[1]) /\ IsSubseq(path, el[2])
  IN IF name \in DOMAIN lookup THEN SelectSeq(lookup[name], designated) ELSE <<>>

\* The errors about references: every unbound entry, and the ambiguous
\* entries that carry no path of their own.
RefErrors(errors) ==
  LET all == errors.m_unbounds \o errors.m_ambiguities
      aboutRef(e) == e.cls = "_unbound__c" \/ e.m_path = None
  IN SelectSeq(all, aboutRef)

\* Every Var of the expression holds the identity of a feature or attribute.
RECURSIVE AllVarsBound(_)
AllVarsBound(e) ==
  IF e.op = "Var" THEN e.ref.t \in {"fd", "att"}
  ELSE \A i \in 1..Len(e.m_content) : AllVarsBound(e.m_content[i])

\* What check() made of the reference segs of feature n: e2 is the Var afterwards.
ResolvedAsDeclared(n, segs, e2, lookup, errors) ==
  LET cands == Candidates(n, segs, lookup)
      about(e) == e.m_name \in {segs, <<Last(segs)>>}
      mine == SelectSeq(RefErrors(errors), about)
  IN CASE Len(cands) = 1 -> e2.ref = cands[1][1] /\ mine = <<>>
       [] Len(cands) = 0 -> Len(mine) = 1 /\ mine[1].cls = "_unbound__c"
       [] OTHER -> /\ Len(mine) = 1
                   /\ mine[1].cls = "_ambiguous__c"
                   /\ mine[1].m_paths = SeqMap2(cands, 1)

RECURSIVE VarRefs(_)
VarRefs(e) ==
  IF e.op = "Var" THEN {e.ref.path}
  ELSE UNION {VarRefs(e.m_content[i]) : i \in 1..Len(e.m_content)}

\* The Vars of e, left to right.
RECURSIVE VarsOf(_), VarsOfSubs(_, _)
VarsOf(e) == IF e.op = "Var" THEN <<e>> ELSE VarsOfSubs(e.m_content, 1)

VarsOfSubs(content, i) ==
  IF i > Len(content) THEN <<>>
  ELSE VarsOf(content[i]) \o VarsOfSubs(content, i + 1)

\* C12: on a checked root FM, nf_constraint(c) of a constraint with variable
\* references completes without raising and returns (resolved_c, errors):
\* each declared, unambiguous reference replaced by its identity, and errors
\* holding exactly the unbound and ambiguous references (empty without any).
C12_NfConstraintResolves ==
  (/\ ret.op = "nf_constraint"
   /\ m_lookup # None
   /\ VarRefs(_manage_parameter__(ret.c)) # {}) =>
     /\ ret.raised = ""
     /\ LET before == VarsOf(_manage_parameter__(ret.c))
            after == VarsOf(ret.res)
            unique(i) == Len(Candidates(1, before[i].ref.path, m_lookup[1])) = 1
        IN /\ \A i \in 1..Len(before) :
                unique(i) =>
                  after[i].ref = Candidates(1, before[i].ref.path, m_lookup[1])[1][1]
           /\ Len(RefErrors(ret.errors)) = Cardinality({i \in 1..Len(before) : ~unique(i)})
           /\ errors_bool(ret.errors) <=> RefErrors(ret.errors) # <<>>

(***************************************************************************)
(* nf_product: the partial products are merged, each entry of is_true_d    *)
(* holding a value and the index of the partial it comes from; a first     *)
(* traversal infers the values the groups imply, a second one writes the   *)
(* product.  A dict is a function; a partial is given as its items, in the *)
(* order of insertion.                                                     *)
(***************************************************************************)
MaxPartials == 2   \* partial products given to one nf_product call
MaxEarlier == 1    \* keys a partial before the last one gives a value

\* An entry (value, index) of is_true_d.
Entry(v, i) == [v |-> v, i |-> i]

\* The default (False, -1) of is_true_d.get.
NoEntry == Entry(PyFalse, -1)

\* The child features of self, as keys.
SubKeys(self) == Tuple([i \in 1..Len(fd.m_content[self]) |-> FdKey(fd.m_content[self][i])])

\* _normalize_product__ from the i-th item on; m_norm is None by default.
RECURSIVE NormalizeLoop(_, _, _, _)
NormalizeLoop(items, i, res, errors) ==
  IF i > Len(items) THEN [res |-> res, errors |-> errors]
  ELSE LET key == items[i][1]
           val == items[i][2]
           r == _path_check_exists__(key, m_lookup[1], errors, TupleKey(<<>>))
       IN IF key.t = "str"
          THEN NormalizeLoop(items, i + 1, DictSet(res, r.content, val), r.errors)
          ELSE NormalizeLoop(items, i + 1, DictSet(res, key, val), errors)

_normalize_product__(product, errors) == NormalizeLoop(product, 1, <<>>, errors)

\* A merge in which an earlier partial keeps its entries.
MergePartialKeepFirst(is_true_d, res, i) ==
  [k \in DOMAIN is_true_d \cup DOMAIN res |->
     IF k \in DOMAIN is_true_d THEN is_true_d[k] ELSE Entry(res[k], i)]

\* is_true_d[k] = (v, i) for the items of the normalized partial of index i.
MergePartial(is_true_d, res, i) ==
  [k \in DOMAIN is_true_d \cup DOMAIN res |->
     IF k \in DOMAIN res THEN Entry(res[k], i) ELSE is_true_d[k]]

\* The loop of nf_product over the partials, from the i-th on (index i - 1);
\* r is the i-th partial, normalized.
RECURSIVE LoadPartials(_, _, _, _), LoadPartial(_, _, _, _)
LoadPartials(args, i, is_true_d, errors) ==
  IF i > Len(args) THEN [is_true_d |-> is_true_d, errors |-> errors]
  ELSE LoadPartial(args, i, is_true_d, _normalize_product__(args[i], errors))

LoadPartial(args, i, is_true_d, r) ==
  LoadPartials(args, i + 1, MergePartial(is_true_d, r.res, i - 1), r.errors)

\* _make_product_extract_utils__ with expected=None: the latest entry of the
\* domain (the first one among those of the same index).
RECURSIVE ExtractLatest(_, _, _, _, _)
ExtractLatest(is_true_d, domain, i, idx, value) ==
  IF i > Len(domain) THEN [idx |-> idx, value |-> value, v_subs |-> <<>>]
  ELSE IF domain[i] \in DOMAIN is_true_d /\ is_true_d[domain[i]].i > idx
       THEN ExtractLatest(is_true_d, domain, i + 1,
                          is_true_d[domain[i]].i, is_true_d[domain[i]].v)
       ELSE ExtractLatest(is_true_d, domain, i + 1, idx, value)

\* _make_product_extract_utils__ with an expected value: the highest index
\* among the entries of the domain that hold it.
RECURSIVE ExtractExpected(_, _, _, _, _)
ExtractExpected(is_true_d, domain, expected, i, idx) ==
  IF i > Len(domain) THEN idx
  ELSE IF /\ domain[i] \in DOMAIN is_true_d
          /\ PyEq(is_true_d[domain[i]].v, expected)
          /\ is_true_d[domain[i]].i > idx
       THEN ExtractExpected(is_true_d, domain, expected, i + 1, is_true_d[domain[i]].i)
       ELSE ExtractExpected(is_true_d, domain, expected, i + 1, idx)

_make_product_extract_utils__(is_true_d, domain, expected) ==
  IF expected = PyNone
  THEN ExtractLatest(is_true_d, domain, 1, -1, _empty__)
  ELSE [idx |-> ExtractExpected(is_true_d, domain, expected, 1, -1),
        value |-> _empty__,
        v_subs |-> Tuple([i \in 1..Len(domain) |->
                            IF domain[i] \in DOMAIN is_true_d
                            THEN is_true_d[domain[i]].v ELSE _empty__])]

\* get_default of FDAnd._infer_sv__, r being (idx, value).
get_default(is_true_d, r, el) ==
  IF el \notin DOMAIN is_true_d \/ is_true_d[el].i < r.idx
  THEN r.value ELSE is_true_d[el].v

\* The return of FDAnd._infer_sv__.
FDAnd_return(subs, is_true_d, r, self) ==
  [idx |-> r.idx, v_local |-> get_default(is_true_d, r, self),
   v_subs |-> Tuple([i \in 1..Len(subs) |-> get_default(is_true_d, r, subs[i])])]

\* _infer_sv__ of FDAnd: every member takes the latest known value of the
\* group unless it has one at least as recent.
FDAnd_infer_sv(self, is_true_d) ==
  FDAnd_return(SubKeys(self), is_true_d,
               _make_product_extract_utils__(is_true_d, <<FdKey(self)>> \o SubKeys(self), PyNone),
               FdKey(self))

\* The return of FDAny._infer_sv__ and FDOr._infer_sv__, r being
\* (idx_subs, v_subs) and loc (v_local, idx_local).
FDAny_return(r, loc) ==
  IF r.idx > loc.i
  THEN [idx |-> r.idx, v_local |-> PyTrue, v_subs |-> r.v_subs]
  ELSE [idx |-> loc.i, v_local |-> loc.v, v_subs |-> r.v_subs]

\* _infer_sv__ of FDAny and FDOr: a True child more recent than the group
\* makes the group True.
FDAny_infer_sv(self, is_true_d) ==
  FDAny_return(_make_product_extract_utils__(is_true_d, SubKeys(self), PyTrue),
               DictGet(is_true_d, FdKey(self), NoEntry))

\* is_true_d.get(sub, (False, -1)) == (True, idx_subs)
IsLatestTrue(e, idx_subs) == PyBool(PyEq(e.v, PyTrue) /\ e.i = idx_subs)

\* The return of FDXor._infer_sv__, r being what FDAny's would return.
FDXor_return(subs, is_true_d, r, idx_subs) ==
  IF idx_subs > -1
  THEN [r EXCEPT !.v_subs = Tuple([i \in 1..Len(subs) |->
                               IsLatestTrue(DictGet(is_true_d, subs[i], NoEntry), idx_subs)])]
  ELSE r

\* _infer_sv__ of FDXor: the same, and with a True child the children are
\* True exactly when they are True at the highest index of a True child.
FDXor_infer_sv(self, is_true_d) ==
  FDXor_return(SubKeys(self), is_true_d, FDAny_infer_sv(self, is_true_d),
               ExtractExpected(is_true_d, SubKeys(self), PyTrue, 1, -1))

_infer_sv__(self, is_true_d) ==
  CASE fd.kind[self] = "FDAnd" -> FDAnd_infer_sv(self, is_true_d)
    [] fd.kind[self] \in {"FDAny", "FDOr"} -> FDAny_infer_sv(self, is_true_d)
    [] fd.kind[self] = "FDXor" -> FDXor_infer_sv(self, is_true_d)

\* The loop of _make_product_update__ over the children, on the dict d1.
UpdateSubs(subs, known, d1, idx, v_subs) ==
  [k \in DOMAIN d1 \cup {subs[i] : i \in known} |->
     IF \E i \in known : subs[i] = k
     THEN Entry(v_subs[CHOOSE i \in known : subs[i] = k], idx)
     ELSE d1[k]]

_make_product_update__(self, is_true_d, idx, v_local, v_subs) ==
  UpdateSubs(SubKeys(self),
             {i \in 1..Len(v_subs) : v_subs[i] # _empty__},
             IF v_local # _empty__
             THEN DictSet(is_true_d, FdKey(self), Entry(v_local, idx)) ELSE is_true_d,
             idx, v_subs)

\* The two lines "idx, v_local, v_subs = self._infer_sv__(is_true_d)" and
\* "self._make_product_update__(is_true_d, idx, v_local, v_subs)", s being
\* what _infer_sv__ returned.
UpdateWith(self, is_true_d, s) ==
  _make_product_update__(self, is_true_d, s.idx, s.v_local, s.v_subs)

InferAndUpdate(self, is_true_d) == UpdateWith(self, is_true_d, _infer_sv__(self, is_true_d))

RECURSIVE _make_product_rec_1(_, _), MakeProductSubs1(_, _, _)
_make_product_rec_1(self, is_true_d) ==
  InferAndUpdate(self, MakeProductSubs1(fd.m_content[self], InferAndUpdate(self, is_true_d), 1))

\* The loop of _make_product_rec_1 over the children, from the i-th on.
MakeProductSubs1(content, is_true_d, i) ==
  IF i > Len(content) THEN is_true_d
  ELSE MakeProductSubs1(content, _make_product_rec_1(content[i], is_true_d), i + 1)

\* A last loop that writes no attribute at all.
ProductAttributesNone(atts, is_true_d, res, i) == res

\* The last loop of _make_product_rec_2: the attributes a partial gave a value.
RECURSIVE ProductAttributes(_, _, _, _)
ProductAttributes(atts, is_true_d, res, i) ==
  IF i > Len(atts) THEN res
  ELSE IF AttKey(atts[i].id) \in DOMAIN is_true_d
       THEN ProductAttributes(atts, is_true_d,
              DictSet(res, AttKey(atts[i].id), is_true_d[AttKey(atts[i].id)].v), i + 1)
       ELSE ProductAttributes(atts, is_true_d, res, i + 1)

RECURSIVE _make_product_rec_2(_, _, _, _), MakeProductSubs2(_, _, _, _, _)
_make_product_rec_2(self, v_local, is_true_d, res) ==
  IF Truthy(v_local)
  THEN ProductAttributes(fd.m_attributes[self], is_true_d,
         MakeProductSubs2(fd.m_content[self], _infer_sv__(self, is_true_d).v_subs, is_true_d,
                          DictSet(res, FdKey(self), v_local), 1),
         1)
  ELSE MakeProductSubs2(fd.m_content[self], _infer_sv__(self, is_true_d).v_subs, is_true_d,
                        DictSet(res, FdKey(self), v_local), 1)

\* The loop of _make_product_rec_2 over the children, from the i-th on.
MakeProductSubs2(content, v_subs, is_true_d, res, i) ==
  IF i > Len(content) THEN res
  ELSE MakeProductSubs2(content, v_subs, is_true_d,
         _make_product_rec_2(content[i],
                             IF v_subs[i] = _empty__ THEN PyFalse ELSE v_subs[i],
                             is_true_d, res),
         i + 1)

\* The end of nf_product: the second traversal from the root, on the
\* is_true_d the first one left.
MakeProduct(is_true_d) ==
  _make_product_rec_2(1, DictGet(is_true_d, FdKey(1), NoEntry).v, is_true_d, <<>>)

\* What nf_product returns, l being what the loop over the partials left.
nf_product_return(l) ==
  [res |-> MakeProduct(_make_product_rec_1(1, l.is_true_d)), errors |-> l.errors]

\* The body of nf_product once the lookup is known to exist.
nf_product(args) == nf_product_return(LoadPartials(args, 1, <<>>, _decl_errors__c))

\* The result of a call that returned r.
NfProductReturned(args, r) ==
  [op |-> "nf_product", raised |-> "", args |-> args, res |-> r.res, errors |-> r.errors]

\* nf_product(*args)
NfProduct(args) ==
  /\ ret' = IF m_lookup = None
            THEN [op |-> "nf_product", raised |-> "ValueError", args |-> args]
            ELSE NfProductReturned(args, nf_product(args))
  /\ UNCHANGED <<fd, m_ctcs, m_lookup, m_dom, m_errors, arg>>

(***************************************************************************)
(* The feature models and partial products nf_product is tried on: every   *)
(* tree, every class per feature, every feature named, at most one         *)
(* attribute (of the last feature); one partial with its keys given as     *)
(* objects or as names, or several partials.                               *)
(***************************************************************************)
\* The keys a partial may hold: the features, then the attributes.
KeySeq ==
  Tuple([i \in 1..Cardinality(Nodes) |-> FdKey(i)])
  \o Tuple([i \in 1..Cardinality(AttKeys) |-> AttKey(SortedSeq({k.id : k \in AttKeys})[i])])

KeyValues(key) == IF key.t = "fd" THEN {PyTrue, PyFalse} ELSE AttValues

\* What a partial gives each key of KeySeq: a value, or nothing (_empty__).
Assignments ==
  {a \in [1..Len(KeySeq) -> {PyTrue, PyFalse, _empty__} \cup AttValues] :
     \A i \in 1..Len(KeySeq) : a[i] \in KeyValues(KeySeq[i]) \cup {_empty__}}

\* The assignments that leave the features alone.
AttributeAssignments ==
  {a \in Assignments : \A i \in 1..Len(KeySeq) : KeySeq[i].t = "fd" => a[i] = _empty__}

\* The name a product designates the key by.
NameOfKey(key) ==
  IF key.t = "fd" THEN fd.m_name[key.id][1] ELSE fd.m_attributes[key.id][1].name

\* The dict of an assignment, its keys given as names or as objects.
RECURSIVE ItemsOf(_, _, _)
ItemsOf(a, asStr, i) ==
  IF i > Len(KeySeq) THEN <<>>
  ELSE IF a[i] = _empty__ THEN ItemsOf(a, asStr, i + 1)
  ELSE << <<IF asStr THEN StrKey(<<NameOfKey(KeySeq[i])>>) ELSE KeySeq[i], a[i]>> >>
       \o ItemsOf(a, asStr, i + 1)

\* The assignments that give at most MaxEarlier keys a value.
SmallAssignments ==
  {a \in Assignments : Cardinality({i \in 1..Len(KeySeq) : a[i] # _empty__}) <= MaxEarlier}

\* One partial in either form; or up to MaxPartials partials.  Without an
\* attribute the partials before the last one are small and the last one is
\* any; with an attribute the first one is any and the next ones give the
\* attribute only.
PartialLists ==
  {<<ItemsOf(a, asStr, 1)>> : a \in Assignments, asStr \in BOOLEAN}
  \cup UNION {
    IF AttKeys = {}
    THEN {Tuple([i \in 1..k |-> ItemsOf(IF i = k THEN last ELSE earlier[i], FALSE, 1)]) :
            earlier \in [1..(k - 1) -> SmallAssignments], last \in Assignments}
    ELSE {Tuple([i \in 1..k |-> ItemsOf(IF i = 1 THEN first ELSE rest[i], FALSE, 1)]) :
            first \in Assignments, rest \in [2..k -> AttributeAssignments]}
    : k \in 2..MaxPartials}

InitNf ==
  /\ \E n \in 1..MaxNodes :
       \E par \in Parents(n), kinds \in [1..n -> Kinds], at \in {0, n} :
         /\ fd = MakeFd(n, par, kinds, [k \in 1..n |-> Some(NodeName(k))],
                        [k \in 1..n |-> IF at = k THEN <<Att(k, "v", NonNegative)>> ELSE <<>>])
         /\ m_ctcs = [k \in 1..n |-> <<>>]
  /\ m_lookup = None
  /\ m_dom = None
  /\ m_errors = None
  /\ \E ps \in PartialLists : arg = [c |-> Lit(PyNone), product |-> <<>>, partials |-> ps]
  /\ ret = NoRet

NextNf ==
  \/ Check
  \/ NfProduct(arg.partials)

SpecNf == InitNf /\ [][NextNf]_vars

(***************************************************************************)
(* Properties of nf_product.                                               *)
(***************************************************************************)
\* nf_product returned a product.
NfReturned == ret.op = "nf_product" /\ ret.raised = ""

\* The declared entity a key of a partial designates (names are unique here).
KeyOf(key) ==
  IF key.t # "str" THEN key
  ELSE CHOOSE k \in FeatureKeys \cup AttKeys : NameOfKey(k) = key.path[1]

\* What partial p (its items) gives the key, or _empty__.
GivenBy(p, key) ==
  IF \E j \in 1..Len(p) : KeyOf(p[j][1]) = key
  THEN p[CHOOSE j \in 1..Len(p) : KeyOf(p[j][1]) = key][2]
  ELSE _empty__

\* C13: for every list of partials and every feature key that the last
\* partial assigns, the product nf_product returns holds the last partial's
\* value for that feature, whatever the earlier partials assign.
C13_LastPartialWins ==
  NfReturned =>
    \A k \in FeatureKeys :
      GivenBy(Last(ret.args), k) # _empty__ => ret.res[k] = GivenBy(Last(ret.args), k)

\* The product a partial stands for, its keys as objects.
ProductOf(p) ==
  [k \in {KeyOf(p[j][1]) : j \in 1..Len(p)} |-> GivenBy(p, k)]

\* nf_product was given the single product p, total and accepted by fm(p).
AcceptedTotal(p) ==
  /\ DOMAIN ProductOf(p) = FeatureKeys \cup AttKeys
  /\ fd_call(ProductOf(p), PyTrue).m_value = PyTrue

Givers(key) == {i \in 1..Len(ret.args) : GivenBy(ret.args[i], key) # _empty__}

\* The greatest element of a non-empty set of integers.
Max(S) == CHOOSE x \in S : \A y \in S : y <= x

\* C15: the product nf_product returns contains an attribute key if and only
\* if some partial gave the attribute a value and the attribute's feature is
\* True in the returned product; its value is then the one of the
\* highest-index partial that set it.  The attributes of the features that
\* end up False are omitted even when a partial set them.
C15_AttributesOfSelected ==
  NfReturned =>
    \A k \in AttKeys :
      /\ k \in DOMAIN ret.res <=> (Givers(k) # {} /\ ret.res[FdKey(k.id)] = PyTrue)
      /\ k \in DOMAIN ret.res => ret.res[k] = GivenBy(ret.args[Max(Givers(k))], k)

\* Two partials gave the attribute of a feature that ends up True two values.
C15_Witness ==
  /\ NfReturned
  /\ \E k \in AttKeys :
       /\ Givers(k) = {1, 2}
       /\ GivenBy(ret.args[1], k) # GivenBy(ret.args[2], k)
       /\ k \in DOMAIN ret.res

(***************************************************************************)
(* The construction of an Int domain.  An argument of Int(...) is a bare   *)
(* value (a number or None) or a tuple of values.                          *)
(***************************************************************************)
MaxInt == 3       \* the bare integers are 0..MaxInt
MaxIntArgs == 3   \* arguments of one Int(...) call

Bare(v) == [isTuple |-> FALSE, items |-> <<v>>]
TupleArg(items) == [isTuple |-> TRUE, items |-> items]

_is_valid_bound(a) == ~a.isTuple /\ a.items[1].ty \in {"int", "bool", "float", "NoneType"}

\* isinstance(arg, (float, int))
IsNumber(a) == ~a.isTuple /\ a.items[1].ty \in {"int", "bool", "float"}

\* An interval that holds nothing: (arg, arg).
BareIntervalEmpty(n) == <<n, n>>

\* The interval a bare number contributes: (arg, arg+1).
BareInterval(n) == <<n, PyInt(n.v + 1)>>

\* The loop of _add_domain_spec from the i-th argument on.
RECURSIVE AddDomainLoop(_, _, _)
AddDomainLoop(l, spec, i) ==
  IF i > Len(spec) THEN [l |-> l, raised |-> ""]
  ELSE LET a == spec[i]
       IN IF ~IsNumber(a)
          THEN IF \/ ~a.isTuple
                  \/ Len(a.items) # 2
                  \/ ~(_is_valid_bound(Bare(a.items[1])) /\ _is_valid_bound(Bare(a.items[2])))
               THEN [l |-> l, raised |-> "ValueError"]
               ELSE AddDomainLoop(Append(l, a.items), spec, i + 1)
          ELSE AddDomainLoop(Append(l, BareInterval(a.items[1])), spec, i + 1)

\* Two valid bounds are one interval.
_add_domain_spec(l, spec) ==
  IF Len(spec) = 2 /\ _is_valid_bound(spec[1]) /\ _is_valid_bound(spec[2])
  THEN AddDomainLoop(l, <<TupleArg(<<spec[1].items[1], spec[2].items[1]>>)>>, 1)
  ELSE AddDomainLoop(l, spec, 1)

\* Int(*args)
Int_init(args) ==
  LET r == _add_domain_spec(<<>>, args)
  IN [spec |-> IntSpec(r.l), raised |-> r.raised]

\* The arguments the construction is tried on.
IntArgs ==
  {Bare(PyInt(n)) : n \in 0..MaxInt}
  \cup {Bare(PyNone), TupleArg(<<PyInt(1), PyInt(MaxInt)>>), TupleArg(<<PyInt(0), PyNone>>)}

IntArgLists == UNION {[1..m -> IntArgs] : m \in 1..MaxIntArgs}

InitInt ==
  /\ fd = NoFd
  /\ m_ctcs = <<>>
  /\ m_lookup = None
  /\ m_dom = None
  /\ m_errors = None
  /\ \E args \in IntArgLists, v \in (-1)..(MaxInt + 2) :
       arg = [c |-> Lit(PyNone), product |-> <<>>, args |-> args, value |-> PyInt(v)]
  /\ ret = NoRet

\* Int(*args)(value)
IntCall(args, value) ==
  /\ ret.op = "none"
  /\ ret' = LET d == Int_init(args)
            IN IF d.raised # ""
               THEN [op |-> "Int", raised |-> d.raised]
               ELSE [op |-> "Int", raised |-> "", domain |-> d.spec,
                     accepted |-> Spec_call(d.spec, value)]
  /\ UNCHANGED <<fd, m_ctcs, m_lookup, m_dom, m_errors, arg>>

NextInt == IntCall(arg.args, arg.value)

SpecInt == InitInt /\ [][NextInt]_vars

\* Int(*args)(value) was evaluated, and every argument is a bare integer.
BareIntegers ==
  /\ ret.op = "Int"
  /\ \A i \in 1..Len(arg.args) : ~arg.args[i].isTuple /\ arg.args[i].items[1].ty = "int"

BareValues == {arg.args[i].items[1].v : i \in 1..Len(arg.args)}

\* C16 as stated: for an Int domain built from one or more bare integers
\* n_1..n_m (any m >= 1), each n_i contributes [n_i, n_i+1), so the domain
\* accepts an integer v if and only if v is one of the n_i.
C16_BareIntegers ==
  BareIntegers => (ret.raised = "" /\ (ret.accepted <=> arg.value.v \in BareValues))

\* C16, amended: the same for m = 1 and m >= 3; exactly two bare integers
\* n_1, n_2 are taken as the single interval [n_1, n_2).
C16_BareIntegersButTwo ==
  BareIntegers =>
    /\ ret.raised = ""
    /\ IF Len(arg.args) = 2
       THEN ret.accepted <=>
              (arg.args[1].items[1].v <= arg.value.v /\ arg.value.v < arg.args[2].items[1].v)
       ELSE ret.accepted <=> arg.value.v \in BareValues

\* Three bare integers, of which the last one is the value tried.
C16_Witness ==
  /\ BareIntegers
  /\ Len(arg.args) = 3
  /\ arg.args[1] # arg.args[3]
  /\ arg.args[3].items[1] = arg.value
  /\ ret.accepted

\* The members of the group of n: n and its child features, as keys.
Members(n) == {FdKey(n)} \cup {FdKey(fd.m_content[n][i]) : i \in 1..Len(fd.m_content[n])}

\* No single partial gives two members of the group of n different values.
NoPartialSplits(n) ==
  \A i \in 1..Len(ret.args) : \A k1 \in Members(n), k2 \in Members(n) :
    (GivenBy(ret.args[i], k1) # _empty__ /\ GivenBy(ret.args[i], k2) # _empty__) =>
      GivenBy(ret.args[i], k1) = GivenBy(ret.args[i], k2)

\* The partials that give some member of the group of n a value.
GroupGivers(n) == UNION {Givers(k) : k \in Members(n)}

\* Every feature a partial gives a value is a member of the group of n.
OnlyGroupGiven(n) == \A k \in FeatureKeys : Givers(k) # {} => k \in Members(n)

\* C17: in the product nf_product returns, every FDAnd node and all of its
\* child features have the same value, provided no single partial assigns
\* different values to two members of the group; the shared value is the one
\* of the highest-provenance known member (compared here when the partials
\* give values to members of the group only).
C17_AndGroupShares ==
  NfReturned =>
    \A n \in Nodes :
      (fd.kind[n] = "FDAnd" /\ NoPartialSplits(n)) =>
        /\ \A k \in Members(n) : ret.res[k] = ret.res[FdKey(n)]
        /\ (n = 1 /\ OnlyGroupGiven(n) /\ GroupGivers(n) # {}) =>
             \E k \in Members(n) :
               ret.res[FdKey(n)] = GivenBy(ret.args[Max(GroupGivers(n))], k)

\* The child features of n, as keys.
Children(n) == {FdKey(fd.m_content[n][i]) : i \in 1..Len(fd.m_content[n])}

\* The partials (by position) that set some child of n to True.
TrueSetters(n) == {i \in 1..Len(ret.args) : \E c \in Children(n) : GivenBy(ret.args[i], c) = PyTrue}

\* The partials set different children of n to True at different indices.
SetAtDifferentIndices(n) ==
  \E i \in TrueSetters(n), j \in TrueSetters(n) : \E ci \in Children(n), cj \in Children(n) :
    /\ i # j /\ ci # cj
    /\ GivenBy(ret.args[i], ci) = PyTrue
    /\ GivenBy(ret.args[j], cj) = PyTrue

\* C18: in the product nf_product returns, for every FDXor node whose
\* children were set True by partials of different indices, only the children
\* set True by the highest-index such partial are True and every other child
\* is False; the node itself is True unless a partial of higher index set it
\* False.
C18_XorLatestWins ==
  NfReturned =>
    \A n \in Nodes :
      (fd.kind[n] = "FDXor" /\ SetAtDifferentIndices(n)) =>
        LET h == Max(TrueSetters(n))
        IN /\ \A c \in Children(n) :
                ret.res[c] = PyBool(GivenBy(ret.args[h], c) = PyTrue)
           /\ ret.res[FdKey(n)] =
                PyBool(~\E i \in Givers(FdKey(n)) :
                          i > h /\ GivenBy(ret.args[i], FdKey(n)) = PyFalse)

(***************************************************************************)
(* Cross-tree constraints in the evaluation of a product.                  *)
(***************************************************************************)
\* C19: whenever a cross-tree constraint attached to a feature that is True
\* in the product evaluates to false on that product, the verdict of
\* fm(product) is false, for every class (FDAnd, FDOr, FDXor, FDAny) of the
\* feature and whatever the values of its children.
C19_FalseConstraintRejected ==
  (CallReturned /\ NoDeclErrors /\ TotalProduct) =>
    \A n \in Named : \A i \in 1..Len(m_ctcs[n]) :
      (/\ IsTrueIn(arg.product, FdKey(n))
       /\ ~Truthy(expbool_call(m_ctcs[n][i], arg.product, PyTrue).m_value)) =>
        ret.result.m_value = PyFalse

(***************************************************************************)
(* Calling a constraint expression on a product that lacks some key.       *)
(***************************************************************************)
\* The products over VarNames with at least one key missing.
PartialBoolProducts ==
  UNION {[{StrKey(<<n>>) : n \in S} -> {PyTrue, PyFalse}] : S \in (SUBSET VarNames) \ {VarNames}}

InitExprPartial ==
  /\ fd = NoFd
  /\ m_ctcs = <<>>
  /\ m_lookup = None
  /\ m_dom = None
  /\ m_errors = None
  /\ \E c \in Exprs, p \in PartialBoolProducts : arg = [c |-> c, product |-> p]
  /\ ret = NoRet

SpecExprPartial == InitExprPartial /\ [][NextExpr]_vars

\* The keys of the Vars of an expression.
RECURSIVE VarKeys(_)
VarKeys(e) ==
  IF e.op = "Var" THEN {e.ref}
  ELSE UNION {VarKeys(e.m_content[i]) : i \in 1..Len(e.m_content)}

\* C20: evaluating a constraint expression with expected=True on a product
\* that lacks the key of one of its variables never yields value True with
\* an empty reason: the absence is reported as a value-none reason.
C20_AbsenceReported ==
  ret.op = "expbool_call" =>
    \A k \in VarKeys(arg.c) :
      k \notin DOMAIN arg.product =>
        /\ ~(ret.result.m_value = PyTrue /\ ~ReasonTruthy(ret.result.m_reason))
        /\ HasLocal(ret.result.m_reason, {"value_none"}, k)

(***************************************************************************)
(* An FDXor feature whose content is as the product says.                  *)
(***************************************************************************)
\* The result of the evaluation of the feature n within fm(product).
ResultAt(n) == _eval_generic__(n, arg.product, ExpectedAt(n))

\* The child features of n are named, exactly one is True in the product and
\* its own verdict is true.
OneChildTrueAndValid(n) ==
  /\ \A i \in 1..Len(fd.m_content[n]) : fd.m_content[n][i] \in Named
  /\ Cardinality(TrueChildren(n)) = 1
  /\ \A i \in TrueChildren(n) : ResultAt(fd.m_content[n][i]).m_value = PyTrue

\* Every attribute of n has a value its domain accepts.
AttributesAccepted(n) ==
  \A i \in 1..Len(fd.m_attributes[n]) :
    Spec_call(fd.m_attributes[n][i].spec, arg.product[AttKey(fd.m_attributes[n][i].id)])

\* Every cross-tree constraint attached to n is true on the product.
ConstraintsTrue(n) ==
  \A i \in 1..Len(m_ctcs[n]) :
    Truthy(expbool_call(m_ctcs[n][i], arg.product, PyTrue).m_value)

\* The verdicts of all the child features of n are true.
ChildrenValid(n) ==
  \A i \in 1..Len(fd.m_content[n]) : ResultAt(fd.m_content[n][i]).m_value = PyTrue

\* C21: a named FDXor feature that is True in the product, with exactly one
\* child feature True and valid, every attribute value accepted by its domain
\* and every attached cross-tree constraint true, is accepted at that node:
\* the reason tree holds no value-mismatch on it and, its children being
\* valid, its verdict is true (the verdict of fm(product) when it is the root).
C21_XorAccepted ==
  (CallReturned /\ NoDeclErrors /\ TotalProduct) =>
    \A n \in Named :
      (/\ fd.kind[n] = "FDXor"
       /\ IsTrueIn(arg.product, FdKey(n))
       /\ OneChildTrueAndValid(n)
       /\ AttributesAccepted(n)
       /\ ConstraintsTrue(n)) =>
        /\ ~HasLocal(ret.result.m_reason, {"value_mismatch"}, _updater__(FdKey(n)))
        /\ ChildrenValid(n) => ResultAt(n).m_value = PyTrue
        /\ (n = 1 /\ ChildrenValid(n)) => ret.result.m_value = PyTrue

====
